---- MODULE Spec2Model ----
(***************************************************************************)
(* Model of cik_lookup.py: extract_pre_sections (the Block Extractor), the *)
(* line parser inside main (the Record Parser) and main's query loop.      *)
(* Text is a sequence of one-character strings; indices handed to the      *)
(* Python string operations are 0-based, as in the source.                 *)
(***************************************************************************)
EXTENDS Integers, Sequences, FiniteSets, TLC

VARIABLES
    pc,             \* position of main / extract_pre_sections
    html,           \* html_content, the parameter html of extract_pre_sections
    start,          \* extract_pre_sections: start
    end,            \* extract_pre_sections: end
    pre_sections,   \* extract_pre_sections: pre_sections (and main's copy)
    spans,          \* history: <<start, end>> of every block appended
    pre_table,      \* main: pre_table
    rest,           \* main: lines the for loop over pre_table.split has not visited
    line,           \* main: line
    cik,            \* main: cik
    company_start,  \* main: company_start
    data,           \* main: data, a dict kept as a sequence of <<key, value>>
    pending,        \* main: entries of search_entries the for loop has not visited
    requests,       \* history: how often urlopen was called for each entry
    entry,          \* main: entry
    reply,          \* what urlopen did for the current entry: a response or an exception
    exc,            \* exception in flight, or None
    printed         \* the print calls of the current iteration of the for loop

extract_vars == <<start, end, pre_sections, spans>>
parse_vars == <<pre_table, rest, line, cik, company_start, data>>
loop_vars == <<pending, requests, entry, reply, exc, printed>>

vars == <<pc, html, extract_vars, parse_vars, loop_vars>>

\* entry before the first iteration; the Content-Encoding of a plain response
None == "None"

\* no reply yet, no exception in flight
Nothing == [nothing |-> TRUE]

(***************************************************************************)
(* Python str operations                                                   *)
(***************************************************************************)

\* s[i:i+len(sub)] == sub, for a 0-based i
MatchAt(s, sub, i) ==
    /\ i >= 0
    /\ i + Len(sub) <= Len(s)
    /\ \A k \in 1..Len(sub) : s[i + k] = sub[k]

\* a slice bound, as Python normalises it: negative counts from the end, then clamped
\* (variant: a negative bound is taken as 0)
SliceIndexNoNegative(n, i) ==
    IF i < 0 THEN 0 ELSE IF i > n THEN n ELSE i
SliceIndex(n, i) ==
    IF i < 0 THEN (IF i + n < 0 THEN 0 ELSE i + n)
    ELSE IF i > n THEN n ELSE i

\* str.find(sub, begin): lowest index >= begin where sub occurs, else -1
Find(s, sub, begin) ==
    LET hits == {i \in SliceIndex(Len(s), begin)..(Len(s) - Len(sub)) :
                    MatchAt(s, sub, i)}
    IN  IF hits = {} THEN -1 ELSE CHOOSE i \in hits : \A j \in hits : i <= j

\* sub in s
Contains(s, sub) == Find(s, sub, 0) # -1

\* s[a:b]
PySlice(s, a, b) ==
    LET lo == SliceIndex(Len(s), a)
        hi == SliceIndex(Len(s), b)
    IN  IF lo >= hi THEN <<>> ELSE SubSeq(s, lo + 1, hi)

\* s[a:]
PySliceFrom(s, a) == PySlice(s, a, Len(s))

\* the characters str.strip() removes (those of them the inputs use)
Whitespace == {" ", "\t", "\n", "\r"}

\* s.strip()
StripText(t) ==
    LET kept == {i \in 1..Len(t) : t[i] \notin Whitespace}
    IN  IF kept = {} THEN <<>>
        ELSE SubSeq(t, CHOOSE i \in kept : \A j \in kept : i <= j,
                       CHOOSE i \in kept : \A j \in kept : i >= j)

\* (the argument is evaluated once, then stripped)
Strip(s) == CHOOSE r \in {StripText(t) : t \in {s}} : TRUE

\* s.split("\n"): the pieces between successive newlines, one more than newlines
SplitLines(s) ==
    LET cuts == {i \in 1..Len(s) : s[i] = "\n"}
        \* the k-th cut, with 0 before the first and Len(s) + 1 behind the last
        Cut(k) == IF k = 0 THEN 0
                  ELSE IF k > Cardinality(cuts) THEN Len(s) + 1
                  ELSE CHOOSE i \in cuts : Cardinality({j \in cuts : j < i}) = k - 1
    IN  [k \in 1..(Cardinality(cuts) + 1) |-> SubSeq(s, Cut(k - 1) + 1, Cut(k) - 1)]

(***************************************************************************)
(* extract_pre_sections                                                    *)
(***************************************************************************)

start_tag == <<"<", "p", "r", "e", ">">>
end_tag == <<"<", "/", "p", "r", "e", ">">>

\* line 27
FindEnd(h, s) == Find(h, end_tag, s)

\* line 30 (variant first: without .strip())
PreContentUnstripped(h, s, e) == PySlice(h, s + Len(start_tag), e)
PreContent(h, s, e) == Strip(PySlice(h, s + Len(start_tag), e))

\* line 32 (variant first: the search resumes behind the start tag, not at end)
NextStartAfterStart(h, s, e) == Find(h, start_tag, s + 1)
NextStart(h, s, e) == Find(h, start_tag, e)

\* line 28: does the loop body append, or break at line 34?
\* (variant first: end is not tested)
HasEndAlways(h, s) == TRUE
HasEnd(h, s) == FindEnd(h, s) # -1

\* lines 20-23
ExtractCall ==
    /\ pc = "extract"
    /\ pre_sections' = <<>>
    /\ start' = Find(html, start_tag, 0)
    /\ spans' = <<>>
    /\ end' = end
    /\ pc' = "while"
    /\ UNCHANGED <<html, parse_vars, loop_vars>>

\* lines 26-32: one iteration that finds the end tag
WhileAppend ==
    /\ pc = "while"
    /\ start # -1
    /\ HasEnd(html, start)
    /\ end' = FindEnd(html, start)
    /\ pre_sections' = Append(pre_sections, PreContent(html, start, end'))
    /\ spans' = Append(spans, <<start, end'>>)
    /\ start' = NextStart(html, start, end')
    /\ UNCHANGED <<pc, html, parse_vars, loop_vars>>

\* lines 26-27, 33-34, 36: no end tag, break and return
WhileBreak ==
    /\ pc = "while"
    /\ start # -1
    /\ ~HasEnd(html, start)
    /\ end' = FindEnd(html, start)
    /\ pc' = "len"
    /\ UNCHANGED <<html, start, pre_sections, spans, parse_vars, loop_vars>>

\* lines 26, 36: the loop condition fails, return
WhileExit ==
    /\ pc = "while"
    /\ start = -1
    /\ pc' = "len"
    /\ UNCHANGED <<html, extract_vars, parse_vars, loop_vars>>

(***************************************************************************)
(* Documents handed to extract_pre_sections                                *)
(***************************************************************************)

MaxParts == 6

RECURSIVE Concat(_)
Concat(ss) == IF ss = <<>> THEN <<>> ELSE Head(ss) \o Concat(Tail(ss))

SeqsUpTo(S, n) == UNION {[1..k -> S] : k \in 0..n}

DocParts == {start_tag, end_tag, <<"a">>, <<" ", "\n">>}

Docs == {Concat(ps) : ps \in SeqsUpTo(DocParts, MaxParts)}

InitExtract ==
    /\ pc = "extract"
    /\ html \in Docs
    /\ start = -1
    /\ end = -1
    /\ pre_sections = <<>>
    /\ spans = <<>>
    /\ pre_table = <<>>
    /\ rest = <<>>
    /\ line = <<>>
    /\ cik = <<>>
    /\ company_start = <<>>
    /\ data = <<>>
    /\ pending = {}
    /\ requests = <<>>
    /\ entry = None
    /\ reply = Nothing
    /\ exc = Nothing
    /\ printed = <<>>

NextExtract == ExtractCall \/ WhileAppend \/ WhileBreak \/ WhileExit

SpecExtract == InitExtract /\ [][NextExtract]_vars

(***************************************************************************)
(* main: the lines of pre_table (lines 85-99)                              *)
(***************************************************************************)

anchor_open == <<"<", "a", " ", "h", "r", "e", "f", "=", "\"">>
quote_gt == <<"\"", ">">>
close_a == <<"<", "/", "a", ">">>

\* line 91
HasAnchor(l) == Contains(l, anchor_open)

\* line 93
StartLink(l) == Find(l, quote_gt, 0) + 2

\* line 94
EndLink(l) == Find(l, close_a, 0)

\* line 95 (variant first: without .strip())
CikUnstripped(l) == PySlice(l, StartLink(l), EndLink(l))
Cik(l) == Strip(PySlice(l, StartLink(l), EndLink(l)))

\* line 98
CompanyStart(l) == Strip(PySliceFrom(l, EndLink(l) + 4))

DictKeys(d) == {d[i][1] : i \in 1..Len(d)}

\* d[k]
DictGet(d, k) == d[CHOOSE i \in 1..Len(d) : d[i][1] = k][2]

\* d[k] = v: an existing key keeps its place, a new key goes last
\* (variant first: an existing key keeps its value)
DictSetKeepFirst(d, k, v) ==
    IF k \in DictKeys(d) THEN d ELSE Append(d, <<k, v>>)
DictSet(d, k, v) ==
    IF k \in DictKeys(d)
    THEN [i \in 1..Len(d) |-> IF d[i][1] = k THEN <<k, v>> ELSE d[i]]
    ELSE Append(d, <<k, v>>)

\* lines 90-99: one iteration of the for loop over the lines
ParseLine ==
    /\ pc = "for_line"
    /\ rest # <<>>
    /\ line' = Head(rest)
    /\ rest' = Tail(rest)
    /\ IF HasAnchor(line')
       THEN /\ cik' = Cik(line')
            /\ company_start' = CompanyStart(line')
            /\ data' = DictSet(data, cik', company_start')
       ELSE UNCHANGED <<cik, company_start, data>>
    /\ UNCHANGED <<pc, html, extract_vars, pre_table, loop_vars>>

(***************************************************************************)
(* main: the for loop over search_entries (lines 51-120)                   *)
(***************************************************************************)

\* lines 51-57
search_entries == {"Pulse", "Comcast", "Google", "ABC", "Apple"}

\* the classes an exception of class c is an instance of
Bases(c) ==
    CASE c = "HTTPError" -> {"HTTPError", "URLError", "OSError", "Exception"}
      [] c = "URLError" -> {"URLError", "OSError", "Exception"}
      [] c = "RemoteDisconnected" -> {"RemoteDisconnected", "OSError", "Exception"}
      [] c = "BadGzipFile" -> {"BadGzipFile", "OSError", "Exception"}
      [] c = "UnicodeDecodeError" -> {"UnicodeDecodeError", "ValueError", "Exception"}

IsException(r) == "type" \in DOMAIN r

\* lines 115, 117, 119: the except clauses, in the order they are tried
except_clauses == <<"HTTPError", "URLError", "Exception">>

\* the first clause, of those in cs, the exception e is an instance of
FirstClause(cs, e) ==
    LET matching == {i \in 1..Len(cs) : cs[i] \in Bases(e.type)}
    IN  cs[CHOOSE i \in matching : \A j \in matching : i <= j]

\* (variant first: the URLError clause is tried before the HTTPError clause)
HandlerUrlErrorFirst(e) == FirstClause(<<"URLError", "HTTPError", "Exception">>, e)
Handler(e) == FirstClause(except_clauses, e)

\* lines 116, 118, 120
HandlerLine(name, e) ==
    CASE Handler(e) = "HTTPError" ->
           [kind |-> "http",
            text |-> "HTTP Error for '" \o name \o "': " \o ToString(e.code)
                     \o " " \o e.reason]
      [] Handler(e) = "URLError" ->
           [kind |-> "url", text |-> "URL Error for '" \o name \o "': " \o e.reason]
      [] Handler(e) = "Exception" ->
           [kind |-> "unexpected",
            text |-> "Unexpected error for '" \o name \o "': " \o e.reason]

\* line 113
MissingLine(name) ==
    [kind |-> "missing",
     text |-> "Error: Missing expected table for '" \o name \o "'."]

\* line 102
ResultsLine(name) ==
    [kind |-> "results", text |-> "\nResults for '" \o name \o "':"]

\* format spec <10: left-aligned in a field of at least n characters
LeftAlign(s, n) ==
    IF Len(s) >= n THEN s ELSE s \o [i \in 1..(n - Len(s)) |-> " "]

\* line 104
RecordLine(kv) ==
    [kind |-> "record", text |-> LeftAlign(kv[1], 10) \o <<":", " ">> \o kv[2]]

\* line 85
HasTable(ps) == Len(ps) > 1

\* line 86 (variant first: the block at index 0)
FirstSection(ps) == ps[1]
TableSection(ps) == ps[2]

\* where an iteration that raised goes on after its except clause (lines 115-120)
\* (variant first: the exception ends the run)
AbortAfterExcept == "done"
AfterExcept == "for"

\* The locals of the previous iteration are dead when the next one starts: each
\* is assigned (lines 72-98) before it is read again. They are kept out of the
\* state, so that iterations with different pasts meet in the same state.
ClearLocals ==
    /\ html' = <<>>
    /\ start' = -1
    /\ end' = -1
    /\ pre_sections' = <<>>
    /\ spans' = <<>>
    /\ pre_table' = <<>>
    /\ rest' = <<>>
    /\ line' = <<>>
    /\ cik' = <<>>
    /\ company_start' = <<>>
    /\ data' = <<>>

\* lines 60-68: the for loop takes an entry of the set, in no fixed order
ForNext ==
    /\ pc = "for"
    /\ pending # {}
    /\ \E e \in pending :
        /\ entry' = e
        /\ pending' = pending \ {e}
    /\ printed' = <<>>
    /\ reply' = Nothing
    /\ ClearLocals
    /\ pc' = "urlopen"
    /\ UNCHANGED <<requests, exc>>

\* line 60: the set is exhausted, main returns
ForEnd ==
    /\ pc = "for"
    /\ pending = {}
    /\ pc' = "done"
    /\ UNCHANGED <<html, extract_vars, parse_vars, loop_vars>>

\* line 72: urlopen answers with a response or raises
UrlOpen(Answers) ==
    /\ pc = "urlopen"
    /\ requests' = [requests EXCEPT ![entry] = @ + 1]
    /\ \E r \in Answers :
        /\ reply' = r
        /\ IF IsException(r)
           THEN exc' = r /\ pc' = "except"
           ELSE exc' = Nothing /\ pc' = "read"
    /\ UNCHANGED <<html, extract_vars, parse_vars, pending, entry, printed>>

\* lines 74-79: gunzip when the header says gzip, then decode
Read ==
    /\ pc = "read"
    /\ IF reply.encoding = "gzip"
       THEN IF reply.gzipped
            THEN html' = reply.text /\ exc' = Nothing /\ pc' = "extract"
            ELSE /\ exc' = [type |-> "BadGzipFile", reason |-> "Not a gzipped file"]
                 /\ pc' = "except"
                 /\ html' = html
       ELSE IF reply.gzipped
            THEN /\ exc' = [type |-> "UnicodeDecodeError",
                            reason |-> "'utf-8' codec can't decode byte 0x8b"]
                 /\ pc' = "except"
                 /\ html' = html
            ELSE html' = reply.text /\ exc' = Nothing /\ pc' = "extract"
    /\ UNCHANGED <<extract_vars, parse_vars, pending, requests, entry,
                   reply, printed>>

\* lines 85-90: the second block becomes the table
TableSelect ==
    /\ pc = "len"
    /\ HasTable(pre_sections)
    /\ pre_table' = TableSection(pre_sections)
    /\ data' = <<>>
    /\ rest' = SplitLines(pre_table')
    /\ pc' = "for_line"
    /\ UNCHANGED <<html, extract_vars, line, cik, company_start, loop_vars>>

\* lines 112-113
MissingTable ==
    /\ pc = "len"
    /\ ~HasTable(pre_sections)
    /\ printed' = Append(printed, MissingLine(entry))
    /\ pc' = "for"
    /\ UNCHANGED <<html, extract_vars, parse_vars, pending, requests,
                   entry, reply, exc>>

\* lines 102-104
PrintResults ==
    /\ pc = "for_line"
    /\ rest = <<>>
    /\ printed' = printed \o <<ResultsLine(entry)>>
                          \o [i \in 1..Len(data) |-> RecordLine(data[i])]
    /\ pc' = "for"
    /\ UNCHANGED <<html, extract_vars, parse_vars, pending, requests,
                   entry, reply, exc>>

\* lines 115-120
Except ==
    /\ pc = "except"
    /\ printed' = Append(printed, HandlerLine(entry, exc))
    /\ exc' = Nothing
    /\ pc' = AfterExcept
    /\ UNCHANGED <<html, extract_vars, parse_vars, pending, requests,
                   entry, reply>>

(***************************************************************************)
(* Blocks handed to the line parser                                        *)
(***************************************************************************)

MaxLines == 3

RECURSIVE JoinLines(_)
JoinLines(ls) ==
    IF ls = <<>> THEN <<>>
    ELSE IF Len(ls) = 1 THEN ls[1]
    ELSE ls[1] \o <<"\n">> \o JoinLines(Tail(ls))

AnchorLine(pre, u, q, id, z, lab) == pre \o anchor_open \o u \o q \o id \o z \o lab

\* lines of every shape, well-formed or not
AnyLines ==
    {AnchorLine(pre, u, q, id, z, lab) :
        pre \in {<<>>, quote_gt, close_a},
        u \in {<<"x">>, close_a, <<">", "x">>},
        q \in {quote_gt, <<>>},
        id \in {<<"1">>, <<" ", "2", " ">>, <<"1", "2">>},
        z \in {close_a, <<>>},
        lab \in {<<" ", "x">>, <<" ", " ", "y", " ", "z", "\r">>, <<>>}}

\* a few lines, to be repeated and interleaved
FewLines ==
    {AnchorLine(<<>>, <<"x">>, quote_gt, id, close_a, lab) :
        id \in {<<"1">>, <<"1", "2">>}, lab \in {<<" ", "x">>, <<" ", "y">>}}
    \cup {AnchorLine(<<>>, <<"x">>, quote_gt, <<" ", "1">>, close_a, <<" ", "z">>),
          <<"x", " ", "y">>}

\* a block is stripped by extract_pre_sections before it is parsed
Tables ==
    {Strip(JoinLines(ls)) : ls \in SeqsUpTo(FewLines, MaxLines)}
    \cup {Strip(l) : l \in AnyLines}

InitParse ==
    /\ pc = "for_line"
    /\ pre_table \in Tables
    /\ rest = SplitLines(pre_table)
    /\ data = <<>>
    /\ html = <<>>
    /\ start = -1
    /\ end = -1
    /\ pre_sections = <<>>
    /\ spans = <<>>
    /\ line = <<>>
    /\ cik = <<>>
    /\ company_start = <<>>
    /\ pending = {}
    /\ requests = <<>>
    /\ entry = None
    /\ reply = Nothing
    /\ exc = Nothing
    /\ printed = <<>>

NextParse == ParseLine

SpecParse == InitParse /\ [][NextParse]_vars

(***************************************************************************)
(* main as a whole: what urlopen can answer                                *)
(***************************************************************************)

Pre(b) == start_tag \o <<"\n">> \o b \o <<"\n">> \o end_tag

RowA == AnchorLine(<<>>, <<"x">>, quote_gt, <<"1">>, close_a, <<" ", "x">>)
RowB == AnchorLine(<<>>, <<"x">>, quote_gt, <<"1", "2">>, close_a, <<" ", "y">>)
RowA2 == AnchorLine(<<>>, <<"x">>, quote_gt, <<"1">>, close_a, <<" ", "z">>)
RowH == AnchorLine(<<>>, <<"x">>, quote_gt, <<"9">>, close_a, <<" ", "h">>)
RowT == AnchorLine(<<>>, <<"x">>, quote_gt, <<"7">>, close_a, <<" ", "t">>)
RowOpen == AnchorLine(<<>>, <<"x">>, quote_gt, <<"1", "2">>, <<>>, <<>>)

Pages ==
    {<<"a">>,
     Pre(RowH),
     Pre(RowH) \o start_tag \o RowA,
     Pre(RowH) \o Pre(<<"x", " ", "y">>),
     Pre(RowH) \o Pre(JoinLines(<<RowA, RowB, RowA2>>)),
     Pre(RowH) \o Pre(JoinLines(<<RowB, <<"x">>, RowOpen>>)),
     Pre(RowH) \o Pre(JoinLines(<<RowA, RowB>>)) \o Pre(RowT)}

Failures ==
    {[type |-> "HTTPError", code |-> 404, reason |-> "Not Found"],
     [type |-> "URLError", reason |-> "timed out"],
     [type |-> "RemoteDisconnected",
      reason |-> "Remote end closed connection without response"]}

Responses ==
    {[encoding |-> e, gzipped |-> e = "gzip", text |-> t] :
        e \in {"gzip", None}, t \in Pages}
    \cup {[encoding |-> "gzip", gzipped |-> FALSE, text |-> <<"a">>],
          [encoding |-> None, gzipped |-> TRUE, text |-> <<"a">>]}

Init ==
    /\ pc = "for"
    /\ pending = search_entries
    /\ requests = [e \in search_entries |-> 0]
    /\ entry = None
    /\ reply = Nothing
    /\ exc = Nothing
    /\ printed = <<>>
    /\ html = <<>>
    /\ start = -1
    /\ end = -1
    /\ pre_sections = <<>>
    /\ spans = <<>>
    /\ pre_table = <<>>
    /\ rest = <<>>
    /\ line = <<>>
    /\ cik = <<>>
    /\ company_start = <<>>
    /\ data = <<>>

Next ==
    \/ ForNext
    \/ ForEnd
    \/ UrlOpen(Failures \cup Responses)
    \/ Read
    \/ ExtractCall
    \/ WhileAppend
    \/ WhileBreak
    \/ WhileExit
    \/ TableSelect
    \/ MissingTable
    \/ ParseLine
    \/ PrintResults
    \/ Except

Spec == Init /\ [][Next]_vars

\* main is one thread that runs every statement it reaches
FairSpec == Spec /\ WF_vars(Next)

(***************************************************************************)
(* Properties of extract_pre_sections                                      *)
(***************************************************************************)

\* positions (0-based) where sub occurs in s
Occ(s, sub) == {i \in 0..Len(s) : MatchAt(s, sub, i)}

HasSub(s, sub) == Occ(s, sub) # {}

\* the k-th smallest element of a set of integers
Kth(S, k) == CHOOSE x \in S : Cardinality({y \in S : y < x}) = k - 1

\* t is s without its leading and trailing whitespace
IsTrimOf(t, s) ==
    \E i \in 0..Len(s) : \E j \in 0..(Len(s) - i) :
        /\ \A k \in 1..i : s[k] \in Whitespace
        /\ \A k \in (Len(s) - j + 1)..Len(s) : s[k] \in Whitespace
        /\ t = SubSeq(s, i + 1, Len(s) - j)
        /\ t # <<>> => (t[1] \notin Whitespace /\ t[Len(t)] \notin Whitespace)

\* the text strictly between a start tag at s and an end tag at e
Between(h, s, e) == SubSeq(h, s + Len(start_tag) + 1, e)

\* N sequential, non-nested pairs: starts and ends alternate, a start first
WellFormedPairs(h) ==
    LET S == Occ(h, start_tag)
        E == Occ(h, end_tag)
        N == Cardinality(S)
    IN  /\ Cardinality(E) = N
        /\ \A k \in 1..N : Kth(S, k) < Kth(E, k)
        /\ \A k \in 1..(N - 1) : Kth(E, k) < Kth(S, k + 1)

Returned == pc = "len"

\* C1: for a text of N sequential, non-nested, well-formed <pre>...</pre> pairs,
\* extract_pre_sections returns exactly N strings, the i-th being the trimmed
\* text between the i-th start tag and its end tag; none for a text without <pre>.
C1_WellFormedPairsExtracted ==
    (Returned /\ WellFormedPairs(html)) =>
        LET S == Occ(html, start_tag)
            E == Occ(html, end_tag)
        IN  /\ Len(pre_sections) = Cardinality(S)
            /\ \A k \in 1..Cardinality(S) :
                   IsTrimOf(pre_sections[k], Between(html, Kth(S, k), Kth(E, k)))

C1_Witness ==
    /\ Returned
    /\ WellFormedPairs(html)
    /\ Len(pre_sections) = 2
    /\ pre_sections[1] # <<>>
    /\ pre_sections[1] # Between(html, spans[1][1], spans[1][2])

\* C2: when the scan stands on a start tag with no end tag anywhere after it, the
\* next step returns, and returns the blocks collected so far, unchanged.
C2_UnterminatedStartStops ==
    [][(/\ pc = "while"
        /\ start # -1
        /\ {e \in Occ(html, end_tag) : e > start} = {})
       => (Returned' /\ pre_sections' = pre_sections)]_vars

C2_Witness ==
    /\ Returned
    /\ start # -1
    /\ MatchAt(html, start_tag, start)
    /\ {e \in Occ(html, end_tag) : e > start} = {}
    /\ Len(pre_sections) >= 1

\* every block comes from a start tag and the nearest end tag after it
BlocksAreNearestPairs ==
    /\ Len(spans) = Len(pre_sections)
    /\ \A k \in 1..Len(spans) :
        LET s == spans[k][1]
            e == spans[k][2]
        IN  /\ MatchAt(html, start_tag, s)
            /\ MatchAt(html, end_tag, e)
            /\ s < e
            /\ {x \in Occ(html, end_tag) : s < x /\ x < e} = {}
            /\ IsTrimOf(pre_sections[k], Between(html, s, e))
            /\ ~HasSub(pre_sections[k], end_tag)

\* the regions of successive blocks are disjoint and in increasing position
RegionsDisjoint ==
    \A k \in 1..(Len(spans) - 1) :
        spans[k][2] + Len(end_tag) <= spans[k + 1][1]

BlocksBoundedByEndTags ==
    Len(pre_sections) <= Cardinality(Occ(html, end_tag))

\* an iteration that stays in the loop moves the scan position forward
ScanAdvances ==
    (pc = "while" /\ pc' = "while" /\ start' # -1) => start' > start

\* the scan position stays inside the text
ScanBounded == start < Len(html)

\* every step of the loop either returns or appends one block, and the number of
\* blocks is bounded (BlocksBoundedByEndTags): the loop ends
LoopProgress ==
    pc = "while" => (Returned' \/ Len(pre_sections') = Len(pre_sections) + 1)

\* C10: for every text, each block is the trimmed text between a start tag and the
\* nearest end tag after it and contains no end tag; block regions are disjoint and
\* increasing; there are at most as many blocks as end tags; the scan position
\* strictly increases on every iteration and is bounded by the text's length, so
\* the extraction terminates.
C10_ExtractorInvariants ==
    /\ [](BlocksAreNearestPairs /\ RegionsDisjoint /\ BlocksBoundedByEndTags)
    /\ []ScanBounded
    /\ [][ScanAdvances /\ LoopProgress]_vars

C10_Witness ==
    /\ Returned
    /\ ~WellFormedPairs(html)
    /\ Len(pre_sections) = 2
    /\ HasSub(pre_sections[1], start_tag)

(***************************************************************************)
(* Properties of the line parser                                           *)
(***************************************************************************)

Min(S) == CHOOSE x \in S : \A y \in S : x <= y
Max(S) == CHOOSE x \in S : \A y \in S : x >= y

\* the trimmed form of s
TrimOf(s) ==
    CHOOSE t \in {SubSeq(s, i, j) : i \in 1..(Len(s) + 1), j \in 0..Len(s)} :
        IsTrimOf(t, s)

TableLines == SplitLines(pre_table)

\* the for loop over the lines has visited every line
ParsedAll == pc = "for_line" /\ rest = <<>>

\* the for loop has just visited the line held in line
JustParsed == pc = "for_line" /\ Len(rest) < Len(TableLines)

AnchorLines == {i \in 1..Len(TableLines) : HasSub(TableLines[i], anchor_open)}

\* <a href="U">ID</a> LABEL: the "> that ends U, the </a> that ends ID
HrefEnd(l) == Min({p \in Occ(l, quote_gt) : p >= Len(anchor_open)})
AnchorEnd(l) == Min({e \in Occ(l, close_a) : e >= HrefEnd(l) + Len(quote_gt)})
IdOf(l) == SubSeq(l, HrefEnd(l) + Len(quote_gt) + 1, AnchorEnd(l))
LabelOf(l) == SubSeq(l, AnchorEnd(l) + Len(close_a) + 1, Len(l))

\* l has the shape <a href="U">ID</a> LABEL, U without ">, ID without </a>
WellFormedLine(l) ==
    /\ MatchAt(l, anchor_open, 0)
    /\ {p \in Occ(l, quote_gt) : p >= Len(anchor_open)} # {}
    /\ {e \in Occ(l, close_a) : e >= HrefEnd(l) + Len(quote_gt)} # {}
    /\ \/ AnchorEnd(l) + Len(close_a) = Len(l)
       \/ l[AnchorEnd(l) + Len(close_a) + 1] = " "

\* and the "> and </a> of that shape are the first of the line
FirstDelimiters(l) ==
    /\ Min(Occ(l, quote_gt)) = HrefEnd(l)
    /\ Min(Occ(l, close_a)) = AnchorEnd(l)

C4_LastWriteWins ==
    ParsedAll =>
        \A i \in AnchorLines :
            LET k == Cik(TableLines[i])
                last == Max({j \in AnchorLines : Cik(TableLines[j]) = k})
            IN  /\ Cardinality({n \in 1..Len(data) : data[n][1] = k}) = 1
                /\ DictGet(data, k) = CompanyStart(TableLines[last])

C4_Witness ==
    /\ ParsedAll
    /\ Len(TableLines) = 3
    /\ AnchorLines = {1, 2, 3}
    /\ Cik(TableLines[1]) = Cik(TableLines[3])
    /\ Cik(TableLines[1]) # Cik(TableLines[2])
    /\ CompanyStart(TableLines[1]) # CompanyStart(TableLines[3])
    /\ Len(data) = 2

\* C8: for every line with an anchor, the identifier is the text from two
\* characters after the first "> behind the anchor opening up to the first </a>
\* after that, also when "> or </a> occur earlier in the line. (Stated for the
\* lines where no "> begins on the closing quote of the anchor opening itself.)
C8_IdentifierBehindAnchor ==
    (/\ JustParsed
     /\ HasSub(line, anchor_open)
     /\ ~MatchAt(line, quote_gt, Min(Occ(line, anchor_open)) + Len(anchor_open) - 1)) =>
        LET a == Min(Occ(line, anchor_open))
            P == {p \in Occ(line, quote_gt) : p >= a + Len(anchor_open)}
            E == {e \in Occ(line, close_a) : P # {} /\ e >= Min(P) + Len(quote_gt)}
        IN  (P # {} /\ E # {}) =>
                IsTrimOf(cik, SubSeq(line, Min(P) + Len(quote_gt) + 1, Min(E)))

\* C9: a line with an anchor and no </a> is not skipped: the label is the line from
\* index 3 on, trimmed; the identifier is the trimmed slice from two characters
\* after the first "> (index 1 when there is none) up to, not including, the last
\* character; and the entry is in the mapping.
C9_MissingCloseTag ==
    (JustParsed /\ HasSub(line, anchor_open) /\ ~HasSub(line, close_a)) =>
        LET Q == Occ(line, quote_gt)
            from == IF Q = {} THEN 1 ELSE Min(Q) + 2
        IN  /\ IsTrimOf(company_start, SubSeq(line, 4, Len(line)))
            /\ IsTrimOf(cik, SubSeq(line, from + 1, Len(line) - 1))
            /\ cik \in DictKeys(data)
            /\ DictGet(data, cik) = company_start

C9_Witness ==
    /\ JustParsed
    /\ HasSub(line, anchor_open)
    /\ ~HasSub(line, close_a)
    /\ HasSub(line, quote_gt)
    /\ cik # <<>>
    /\ data = <<<<cik, company_start>>>>

(***************************************************************************)
(* Properties of main's for loop                                           *)
(***************************************************************************)

\* the iteration for entry has run to its end
IterationDone == pc = "for" /\ entry # None

\* the body arrived and was decoded
Decodable(r) == ~IsException(r) /\ (r.gzipped <=> r.encoding = "gzip")

Served == IterationDone /\ Decodable(reply)

Failed == IterationDone /\ ~Decodable(reply)

TableRows(b) == {l \in {SplitLines(b)[i] : i \in 1..Len(SplitLines(b))} : HasSub(l, anchor_open)}

\* C5: for a query that was served: with two blocks or more, the output is the
\* results header and one line per entry of the mapping of the block at index 1,
\* and of no other block; with fewer, it is the missing-table line alone.
C5_SecondBlockOrMissing ==
    Served =>
        IF Len(pre_sections) >= 2
        THEN /\ DictKeys(data) = {Cik(l) : l \in TableRows(pre_sections[2])}
             /\ Len(printed) = 1 + Len(data)
             /\ printed[1] = [kind |-> "results",
                              text |-> "\nResults for '" \o entry \o "':"]
             /\ \A n \in 1..Len(data) : printed[n + 1] = RecordLine(data[n])
        ELSE printed = <<[kind |-> "missing",
                          text |-> "Error: Missing expected table for '"
                                   \o entry \o "'."]>>

C5_Witness ==
    /\ Served
    /\ Len(pre_sections) = 3
    /\ TableRows(pre_sections[1]) # {}
    /\ TableRows(pre_sections[3]) # {}
    /\ Len(printed) = 3
    /\ printed[2].kind = "record"

OneAfterAnother ==
    entry' # entry =>
        /\ pc = "for"
        /\ entry # None => (printed # <<>> /\ exc = Nothing)

\* C6: whatever the outcome of a query, urlopen is called exactly once for every
\* configured name, one query after another, never twice for a name, and the run
\* ends after the last name.
C6_EveryNameOnce ==
    /\ [](\A e \in search_entries : requests[e] <= 1)
    /\ [](\A e \in pending : requests[e] = 0)
    /\ [](pc = "done" => \A e \in search_entries : requests[e] = 1)
    /\ [][OneAfterAnother]_vars
    /\ <>(pc = "done")

C6_Witness ==
    /\ IterationDone
    /\ Failed
    /\ Cardinality(pending) = 2
    /\ \A e \in search_entries \ pending : requests[e] = 1

====
